---- MODULE Spec2Model ----
(***************************************************************************)
(* Merkle commitment of src/main.py: make_merkle_tree (commit),            *)
(* make_merkle_proof (prove) and validate_proof (verify).                  *)
(*                                                                         *)
(* Byte strings and hex digests are sequences of character codes.  SHA-256 *)
(* is modelled as a collision-free hash: the digest of x is the code 0     *)
(* (no byte of an item, no character of ":") followed by x, so two inputs  *)
(* have the same digest only when they are equal.  Digests are ordered as  *)
(* Python orders strings, code by code.                                    *)
(*                                                                         *)
(* Python values are records [k, v]: k is the type ("str", "list", "None", *)
(* "int") or the name of the exception an evaluation raised.               *)
(***************************************************************************)
EXTENDS Integers, Sequences, FiniteSets

VARIABLES pc, items, curr_level, next_level, tree, item, proof, result, mode

vars == <<pc, items, curr_level, next_level, tree, item, proof, result, mode>>

\* Longest collection handed to make_merkle_tree.
MaxItems == 5

-----------------------------------------------------------------------------
\* Byte strings

\* b"a"
BytesA == <<97>>

\* b"b"
BytesB == <<98>>

\* b"empty", the contents hashed for a padding leaf
BytesEmpty == <<101, 109, 112, 116, 121>>

\* The byte strings a caller passes as items.
ItemBytes == {BytesA, BytesB, BytesEmpty}

\* The collections a caller passes to make_merkle_tree.
Collections == UNION {[1..n -> ItemBytes] : n \in 0..MaxItems}

\* Python's < on two strings: the first differing code decides, a proper
\* prefix is smaller.
StrLess(a, b) ==
    \E i \in 1..Len(b) :
        /\ i - 1 <= Len(a)
        /\ \A j \in 1..(i - 1) : a[j] = b[j]
        /\ (i > Len(a) \/ a[i] < b[i])

-----------------------------------------------------------------------------
\* Python values

PyNone == [k |-> "None", v |-> <<>>]

PyInt == [k |-> "int", v |-> <<>>]

PyStr(d) == [k |-> "str", v |-> d]

PyList(s) == [k |-> "list", v |-> s]

PyRaise(e) == [k |-> e, v |-> <<>>]

IsRaise(x) == x.k \in {"AttributeError", "IndexError", "TypeError"}

-----------------------------------------------------------------------------
\* Hasher

\* h(item): hex digest of the SHA-256 of item.
h(x) == <<0>> \o x

\* The pair left in construction order: [x, y] without sorted().
sorted_nosort(x, y) == <<x, y>>

\* sorted([x, y]) of two strings
sorted(x, y) == IF StrLess(y, x) THEN <<y, x>> ELSE <<x, y>>

\* The format with s[0] in both places: "%s:%s" % (s[0], s[0]).
fmt_first_twice(s) == s[1] \o <<58>> \o s[1]

\* ("%s:%s" % (s[0], s[1])).encode("utf-8"); 58 is ":"
fmt(s) == s[1] \o <<58>> \o s[2]

-----------------------------------------------------------------------------
\* Nodes

\* LeafNode(contents); contents None is the padding leaf
LeafNode(contents) == [t |-> "leaf", none |-> FALSE, contents |-> contents]

LeafNodeNone == [t |-> "leaf", none |-> TRUE, contents |-> <<>>]

ParentNode(left, right) == [t |-> "parent", left |-> left, right |-> right]

\* A padding leaf hashed as the empty byte string instead of b"empty".
LeafNode_hash_blank(node) == IF node.none THEN h(<<>>) ELSE h(node.contents)

\* LeafNode.hash
LeafNode_hash(node) == IF node.none THEN h(BytesEmpty) ELSE h(node.contents)

RECURSIVE hash(_)
\* ParentNode.hash
ParentNode_hash(node) == h(fmt(sorted(hash(node.left), hash(node.right))))

\* node.hash(), dispatched on the node's class
hash(node) == IF node.t = "leaf" THEN LeafNode_hash(node) ELSE ParentNode_hash(node)

-----------------------------------------------------------------------------
\* Tree Builder

\* The value make_merkle_tree returns for an empty collection: a digest
\* string, not a node.
TreeStr(d) == [t |-> "str", v |-> d]

\* The tree variable before make_merkle_tree has returned.
NoTree == [t |-> "unset"]

\* math.log2(n).is_integer()
log2_is_integer(n) == \E c \in 0..n : 2 ^ c = n

\* math.ceil(math.log2(n))
ceil_log2(n) == CHOOSE c \in 0..n : 2 ^ c >= n /\ \A b \in 0..(c - 1) : 2 ^ b < n

\* math.floor in the place of math.ceil
floor_log2(n) == CHOOSE c \in 0..n : 2 ^ c <= n /\ 2 ^ (c + 1) > n

\* curr_level after the padding of lines 53-58; range(num_to_add) is empty
\* when num_to_add <= 0.
pad_with(level, c) ==
    LET upper == 2 ^ c
        num_to_add == upper - Len(level)
    IN  IF num_to_add > 0
        THEN level \o [i \in 1..num_to_add |-> LeafNodeNone]
        ELSE level

\* The padding with the exponent rounded down.
pad_floor(level) ==
    IF ~log2_is_integer(Len(level)) THEN pad_with(level, floor_log2(Len(level))) ELSE level

\* Lines 53-58: pad when the leaf count is no power of two.
pad(level) ==
    IF ~log2_is_integer(Len(level)) THEN pad_with(level, ceil_log2(Len(level))) ELSE level

\* curr_level = [LeafNode(i) for i in items], padded
leaves_of(its) == pad([i \in 1..Len(its) |-> LeafNode(its[i])])

\* One iteration of the while True loop: k is "return" (curr holds the root),
\* "IndexError" (pop from an empty list) or "continue".
loop_iteration(curr, next) ==
    IF Len(curr) = 1 /\ Len(next) = 0
    THEN [k |-> "return", curr |-> curr, next |-> next]
    ELSE IF Len(curr) < 2
    THEN [k |-> "IndexError", curr |-> <<>>, next |-> next]
    ELSE LET l == curr[Len(curr)]
             r == curr[Len(curr) - 1]
             rest == SubSeq(curr, 1, Len(curr) - 2)
             grown == Append(next, ParentNode(l, r))
         IN  IF Len(rest) = 0
             THEN [k |-> "continue", curr |-> grown, next |-> <<>>]
             ELSE [k |-> "continue", curr |-> rest, next |-> grown]

RECURSIVE run_loop(_, _)
\* The while True loop run to its end: the root node, or the exception.
run_loop(curr, next) ==
    LET it == loop_iteration(curr, next)
    IN  IF it.k = "return" THEN it.curr[1]
        ELSE IF it.k = "IndexError" THEN [t |-> "IndexError"]
        ELSE run_loop(it.curr, it.next)

\* make_merkle_tree(items) as a function of its argument
make_merkle_tree(its) ==
    IF Len(its) = 0 THEN TreeStr(hash(LeafNodeNone)) ELSE run_loop(leaves_of(its), <<>>)

\* The root digest a caller publishes: tree.hash(), or the digest itself when
\* make_merkle_tree returned one.
root_hash_of(t) == IF t.t = "str" THEN t.v ELSE hash(t)

-----------------------------------------------------------------------------
\* Proof Engine: generate

RECURSIVE make_merkle_proof(_, _)
make_merkle_proof(it, root_node) ==
    IF root_node.t # "parent"
    THEN PyRaise("AttributeError")
    ELSE IF root_node.left.t = "leaf"
    THEN IF h(it) = hash(root_node.left)
         THEN PyList(<<PyStr(hash(root_node.right))>>)
         ELSE IF h(it) = hash(root_node.right)
         THEN PyList(<<PyStr(hash(root_node.left))>>)
         ELSE PyNone
    ELSE LET lh == make_merkle_proof(it, root_node.left)
             rh == make_merkle_proof(it, root_node.right)
         IN  IF IsRaise(lh) THEN lh
             ELSE IF IsRaise(rh) THEN rh
             ELSE IF lh.k = "None" /\ rh.k = "None" THEN PyNone
             ELSE PyList(<<IF lh.k # "None" THEN lh ELSE PyStr(hash(root_node.left)),
                           IF rh.k # "None" THEN rh ELSE PyStr(hash(root_node.right))>>)

-----------------------------------------------------------------------------
\* Proof Engine: verify

RECURSIVE hash_item(_, _)
\* hash_item(i) of validate_proof(it, ., .): a str, None (i is neither a str
\* nor a list), or the exception raised.  sorted([left, right]) raises
\* TypeError unless both are strings: right is a str or None, never a list.
hash_item(i, it) ==
    IF i.k = "str" THEN i
    ELSE IF i.k = "list"
    THEN IF Len(i.v) = 0 THEN PyRaise("IndexError")
         ELSE LET left == IF Len(i.v) = 1 THEN i.v[1] ELSE hash_item(i.v[1], it)
                  right == IF Len(i.v) = 1 THEN PyStr(h(it)) ELSE hash_item(i.v[2], it)
              IN  IF IsRaise(left) THEN left
                  ELSE IF IsRaise(right) THEN right
                  ELSE IF left.k # "str" \/ right.k # "str" THEN PyRaise("TypeError")
                  ELSE PyStr(h(fmt(sorted(left.v, right.v))))
    ELSE PyNone

\* validate_proof(item, root_hash, proof): "True", "False" or the exception
validate_proof(it, root_hash, p) ==
    IF p.k = "None" THEN "False"
    ELSE LET got == hash_item(p, it)
         IN  IF IsRaise(got) THEN got.k
             ELSE IF got.k = "str" /\ got.v = root_hash THEN "True"
             ELSE "False"

-----------------------------------------------------------------------------
\* Proofs a caller may hand to validate_proof

\* The two halves under the root of a tree with more than one leaf.
halves(t) == IF t.t = "parent" THEN {hash(t.left), hash(t.right)} ELSE {}

\* The digests a tampered proof gets in the place of one of its own: the
\* root, the two halves under it, and the digests of the item byte strings.
known_digests(t) == {root_hash_of(t)} \cup halves(t) \cup {h(x) : x \in ItemBytes}

\* Values that are no list: digests, None, and an object of another type.
atoms(t) == {PyStr(d) : d \in {root_hash_of(t), h(BytesA)} \cup halves(t)} \cup {PyNone, PyInt}

\* Lists of at most n elements of S.
lists_of(S, n) == {PyList(s) : s \in UNION {[1..m -> S] : m \in 0..n}}

\* Every value handed to validate_proof as a forged proof: an atom, a list
\* of one or two elements each an atom or a list of at most one atom, the
\* empty list, or a list of three digests.
forged_proofs(t) ==
    atoms(t)
        \cup lists_of(atoms(t) \cup lists_of(atoms(t), 1), 2)
        \cup {PyList(<<PyStr(d), PyStr(d), PyStr(e)>>) : d, e \in {root_hash_of(t)} \cup halves(t)}

RECURSIVE digest_paths(_)
\* The positions of the digests inside a proof, each the indices leading to it.
digest_paths(p) ==
    IF p.k = "str" THEN {<<>>}
    ELSE IF p.k = "list"
    THEN UNION {{<<i>> \o q : q \in digest_paths(p.v[i])} : i \in 1..Len(p.v)}
    ELSE {}

RECURSIVE digest_at(_, _)
digest_at(p, path) == IF Len(path) = 0 THEN p.v ELSE digest_at(p.v[path[1]], Tail(path))

RECURSIVE replace_at(_, _, _)
\* The proof with the digest at path replaced by d.
replace_at(p, path, d) ==
    IF Len(path) = 0 THEN PyStr(d)
    ELSE PyList([p.v EXCEPT ![path[1]] = replace_at(@, Tail(path), d)])

\* d with its last character changed.
flip(d) == [d EXCEPT ![Len(d)] = @ + 1]

-----------------------------------------------------------------------------
\* The program: build, then prove and verify

Init ==
    /\ pc = "start"
    /\ items = <<>>
    /\ curr_level = <<>>
    /\ next_level = <<>>
    /\ tree = NoTree
    /\ item = <<>>
    /\ proof = PyNone
    /\ result = ""
    /\ mode = ""

\* make_merkle_tree(its) up to the while loop (lines 48-58).
MakeTreeBegin(its) ==
    /\ pc = "start"
    /\ items' = its
    /\ IF Len(its) = 0
       THEN /\ tree' = TreeStr(hash(LeafNodeNone))
            /\ pc' = "built"
            /\ UNCHANGED curr_level
       ELSE /\ curr_level' = leaves_of(its)
            /\ pc' = "fold"
            /\ UNCHANGED tree
    /\ UNCHANGED <<next_level, item, proof, result, mode>>

\* One iteration of the while loop (lines 59-67).
FoldStep ==
    /\ pc = "fold"
    /\ LET it == loop_iteration(curr_level, next_level)
       IN  /\ curr_level' = it.curr
           /\ next_level' = it.next
           /\ pc' = IF it.k = "return" THEN "built"
                    ELSE IF it.k = "continue" THEN "fold" ELSE "raised"
           /\ tree' = IF it.k = "return" THEN it.curr[1] ELSE tree
           /\ result' = IF it.k = "IndexError" THEN it.k ELSE result
    /\ UNCHANGED <<items, item, proof, mode>>

\* proof = make_merkle_proof(it, tree); an exception ends the program.
MakeProof(it) ==
    /\ pc = "built"
    /\ item' = it
    /\ LET p == make_merkle_proof(it, tree)
       IN  /\ proof' = p
           /\ pc' = IF IsRaise(p) THEN "raised" ELSE "proved"
           /\ result' = IF IsRaise(p) THEN p.k ELSE result
    /\ mode' = "honest"
    /\ UNCHANGED <<items, curr_level, next_level, tree>>

\* validate_proof(item, tree.hash(), proof) on the proof make_merkle_proof
\* returned.
Validate ==
    /\ pc = "proved"
    /\ result' = validate_proof(item, root_hash_of(tree), proof)
    /\ pc' = "done"
    /\ UNCHANGED <<items, curr_level, next_level, tree, item, proof, mode>>

\* validate_proof(it, root, p) on a proof p the caller made up.
ValidateForged(it) ==
    /\ pc = "built"
    /\ \E p \in forged_proofs(tree) :
           /\ proof' = p
           /\ result' = validate_proof(it, root_hash_of(tree), p)
    /\ item' = it
    /\ mode' = "forged"
    /\ pc' = "done"
    /\ UNCHANGED <<items, curr_level, next_level, tree>>

\* validate_proof on the returned proof with one of its digests replaced by
\* another digest.
ValidateTampered ==
    /\ pc = "proved"
    /\ \E path \in digest_paths(proof) :
           \E d \in (known_digests(tree) \cup {flip(digest_at(proof, path))})
                        \ {digest_at(proof, path)} :
               /\ proof' = replace_at(proof, path, d)
               /\ result' = validate_proof(item, root_hash_of(tree), proof')
    /\ mode' = "tampered"
    /\ pc' = "done"
    /\ UNCHANGED <<items, curr_level, next_level, tree, item>>

Next ==
    \/ \E its \in Collections : MakeTreeBegin(its)
    \/ FoldStep
    \/ \E it \in ItemBytes : MakeProof(it)
    \/ Validate
    \/ \E it \in ItemBytes : ValidateForged(it)
    \/ ValidateTampered

Spec == Init /\ [][Next]_vars

-----------------------------------------------------------------------------
\* Vocabulary of the properties

\* it is an element of the collection its.
InCollection(it, its) == \E i \in 1..Len(its) : its[i] = it

\* make_merkle_proof has been called on the built tree (and returned or raised).
Proved == mode = "honest" /\ pc \in {"proved", "raised", "done"}

\* validate_proof has returned or raised.
Verified == pc = "done"

RECURSIVE leaf_seq(_)
\* The leaves of a tree, left to right.
leaf_seq(t) == IF t.t = "leaf" THEN <<t>> ELSE leaf_seq(t.left) \o leaf_seq(t.right)

RECURSIVE leaf_depths(_, _)
\* The depths of the leaves of a tree whose root is at depth d.
leaf_depths(t, d) ==
    IF t.t = "leaf" THEN {d} ELSE leaf_depths(t.left, d + 1) \cup leaf_depths(t.right, d + 1)

\* How many leaves of a tree carry the byte string x.
carrying(t, x) ==
    Cardinality({i \in 1..Len(leaf_seq(t)) : ~leaf_seq(t)[i].none /\ leaf_seq(t)[i].contents = x})

\* How many elements of its are the byte string x.
occurrences(its, x) == Cardinality({i \in 1..Len(its) : its[i] = x})

\* How many leaves of a tree are padding leaves.
padding(t) == Cardinality({i \in 1..Len(leaf_seq(t)) : leaf_seq(t)[i].none})

RECURSIVE parent_paths(_)
\* The internal nodes of a tree, each by the turns (1 left, 2 right) to it.
parent_paths(t) ==
    IF t.t = "leaf" THEN {}
    ELSE {<<>>} \cup {<<1>> \o q : q \in parent_paths(t.left)}
                \cup {<<2>> \o q : q \in parent_paths(t.right)}

RECURSIVE swap_at(_, _)
\* The tree with the two children of the internal node at path exchanged.
swap_at(t, path) ==
    IF Len(path) = 0 THEN ParentNode(t.right, t.left)
    ELSE IF path[1] = 1 THEN ParentNode(swap_at(t.left, Tail(path)), t.right)
    ELSE ParentNode(t.left, swap_at(t.right, Tail(path)))

RECURSIVE mirror(_)
\* The proof with the two slots of every two-element level exchanged.
mirror(p) ==
    IF p.k = "list" /\ Len(p.v) = 2 THEN PyList(<<mirror(p.v[2]), mirror(p.v[1])>>) ELSE p

RECURSIVE one_path(_)
\* The proof describes one leaf-to-root path: a one-element level holds a
\* digest, a two-element level holds one sub-proof and one plain digest.
one_path(p) ==
    /\ p.k = "list"
    /\ Len(p.v) \in {1, 2}
    /\ Len(p.v) = 1 => p.v[1].k = "str"
    /\ Len(p.v) = 2 =>
           \/ p.v[1].k = "str" /\ one_path(p.v[2])
           \/ p.v[2].k = "str" /\ one_path(p.v[1])

RECURSIVE malformed(_)
\* The proof has a malformed shape: an empty list, a list of more than two
\* elements, or an element that is neither a digest nor a list.
malformed(p) ==
    /\ p.k = "list"
    /\ \/ Len(p.v) = 0
       \/ Len(p.v) > 2
       \/ \E i \in 1..Len(p.v) : p.v[i].k \notin {"str", "list"}
       \/ \E i \in 1..Len(p.v) : malformed(p.v[i])

-----------------------------------------------------------------------------
\* Properties

\* C1: for every non-empty collection (one item and repeated items included)
\* and every item in it, validating the proof make_merkle_proof returns for
\* the item against the root digest of the built tree returns True.
RoundTrip ==
    (Proved /\ pc \in {"raised", "done"} /\ InCollection(item, items)) => result = "True"

\* C2: for every collection and every byte string that is not an element of
\* it (b"empty" included, also when the tree was padded), make_merkle_proof
\* returns None.
NegativeMembership ==
    (Proved /\ ~InCollection(item, items)) => proof.k = "None"

\* C3: for every collection, every item not in it and every proof structure,
\* validate_proof against the root digest of the built tree returns False.
ForgedRejected ==
    (Verified /\ mode = "forged" /\ ~InCollection(item, items)) => result = "False"

\* C4: the tree built from the empty collection is a single leaf node whose
\* digest is h(b"empty"), and make_merkle_proof returns None on it for every
\* item.
EmptySetCommitment ==
    /\ (pc = "built" /\ Len(items) = 0) => (tree.t = "leaf" /\ hash(tree) = h(BytesEmpty))
    /\ (Proved /\ Len(items) = 0) => proof.k = "None"

\* C5: validate_proof always returns a boolean and raises nothing: False for
\* an absent proof and False for a malformed one (an empty list, a list of
\* more than two elements, an element that is neither a digest nor a list).
ValidateIsPredicate ==
    Verified =>
        /\ result \in {"True", "False"}
        /\ proof.k = "None" => result = "False"
        /\ malformed(proof) => result = "False"

\* C6: replacing any single digest of the proof make_merkle_proof returned
\* for an item of the collection by a different digest makes validate_proof
\* return False.
TamperDetected ==
    (Verified /\ mode = "tampered" /\ InCollection(item, items)) => result = "False"

TamperDetectedWitness ==
    /\ Verified /\ mode = "tampered" /\ InCollection(item, items)
    /\ Len(proof.v) = 2 /\ proof.v[1].k = "list" /\ Len(proof.v[1].v) = 2
    /\ result = "False"

\* C7: for a collection of n >= 1 items the built tree is a perfect binary
\* tree whose leaf count is the smallest power of two >= n, exactly n leaves
\* carry the items (one leaf per item) and the others are padding, every
\* leaf is at depth log2(leaf count); the loop returns with exactly one node
\* left and never pops from an empty level.
PaddingAndShape ==
    /\ (pc = "raised") => mode = "honest"
    /\ (pc = "fold") => loop_iteration(curr_level, next_level).k # "IndexError"
    /\ (pc = "built" /\ Len(items) >= 1) =>
           LET n == Len(items)
               count == Len(leaf_seq(tree))
           IN  /\ Len(curr_level) = 1 /\ Len(next_level) = 0
               /\ tree.t \in {"leaf", "parent"}
               /\ \E c \in 0..n :
                      /\ count = 2 ^ c
                      /\ count >= n
                      /\ c > 0 => 2 ^ (c - 1) < n
                      /\ leaf_depths(tree, 0) = {c}
               /\ \A x \in ItemBytes : carrying(tree, x) = occurrences(items, x)
               /\ padding(tree) = count - n

PaddingAndShapeWitness ==
    /\ pc = "built" /\ Len(items) = 5
    /\ Len(leaf_seq(tree)) = 8 /\ padding(tree) = 3

\* C8: the digest of an internal node is the same for children (a, b) and
\* (b, a); exchanging the children of any internal node of a built tree
\* leaves the root digest unchanged, and validate_proof gives the same answer
\* when the two slots of every level of the proof are exchanged.
SortedPairInvariant ==
    /\ (pc = "built" /\ tree.t = "parent") =>
           /\ \A a, b \in known_digests(tree) : h(fmt(sorted(a, b))) = h(fmt(sorted(b, a)))
           /\ \A path \in parent_paths(tree) : hash(swap_at(tree, path)) = hash(tree)
    /\ (Verified /\ mode \in {"honest", "tampered"}) =>
           validate_proof(item, root_hash_of(tree), mirror(proof)) = result

SortedPairInvariantWitness ==
    /\ Verified /\ mode = "honest" /\ result = "True"
    /\ Len(proof.v) = 2
    /\ hash(tree.left) # hash(tree.right)

\* C9: make_merkle_proof returns a proof of one leaf-to-root path, also when
\* the item occurs in the left and in the right subtree of an internal node:
\* at every two-element level one slot holds a sub-proof and the other the
\* plain digest of the sibling subtree.
SinglePathUnderDuplicates ==
    (Proved /\ proof.k = "list") => one_path(proof)

\* C10: for a collection whose length is not a power of two, the tree built
\* from it and the tree built from it with b"empty" appended have the same
\* root digest.
PaddingIndistinguishable ==
    (pc = "built" /\ Len(items) >= 1 /\ ~log2_is_integer(Len(items))) =>
        root_hash_of(tree) = root_hash_of(make_merkle_tree(Append(items, BytesEmpty)))

PaddingIndistinguishableWitness ==
    /\ pc = "built" /\ Len(items) = 5
    /\ items[5] # BytesEmpty
    /\ root_hash_of(tree) = root_hash_of(make_merkle_tree(Append(items, BytesEmpty)))
    /\ root_hash_of(tree) # root_hash_of(make_merkle_tree(Append(items, BytesA)))

====
